---- MODULE Spec2Model ----
(***************************************************************************)
(* Model of CdkPipelineStack.__init__ (src/CdkPipelineStack.py): the       *)
(* construct tree the constructor declares statement by statement, the     *)
(* deploy-time resolution of its parameter tokens, the evaluation of the   *)
(* declared policy statements on storage requests, and the execution of    *)
(* the declared pipeline stages.                                           *)
(*                                                                         *)
(* Strings that are concatenated, resolved or pattern-matched are          *)
(* sequences of one-character strings.  A string holding unresolved tokens *)
(* (an f-string over CfnParameter.value_as_string or Bucket.bucket_arn) is *)
(* a sequence of parts: literal text, a Ref to a parameter, or the Arn     *)
(* attribute of a bucket construct.                                        *)
(***************************************************************************)
EXTENDS Integers, Sequences, FiniteSets, TLC

VARIABLES
    values,      \* deploy-time value of each parameter (<<>> when not given)
    given,       \* the parameters the deployment supplies a value for
    pc,          \* index in Steps of the next statement of __init__
    status,      \* "building", "built" or "error" (an exception left __init__)
    env,         \* the local variables of __init__ bound so far -> construct id
    tree,        \* the construct tree: construct id -> declaration
    order,       \* construct ids in the order they were declared
    deployed,    \* "no", "ok" or "rejected": the outcome of the deployment
    req,         \* the last storage request evaluated against the policies
    decision,    \* "Allow" or "Deny": the outcome of that request
    ran,         \* the pipeline stages run so far, with whether inputs were there
    artifacts,   \* the pipeline artifacts produced so far
    prev         \* the result of the previous run of __init__, if any

vars == <<values, given, pc, status, env, tree, order, deployed, req, decision,
          ran, artifacts, prev>>

(***************************************************************************)
(* Bounds                                                                  *)
(***************************************************************************)
MaxNameLen == 2
MaxKeyLen == 2

SeqsUpTo(S, n) == UNION {[1..k -> S] : k \in 1..n}

MyBucket == <<"m", "y", "-", "b", "u", "c", "k", "e", "t">>
MyRepo == <<"m", "y", "-", "r", "e", "p", "o">>

\* Names that extend one another ("a", "aa"), an unrelated one, and "my-bucket".
BucketNames == SeqsUpTo({"a"}, MaxNameLen) \cup {<<"b">>, MyBucket}
RepoNames == {MyRepo, <<"r">>}
Urls == {<<"u">>, <<"v">>}
ObjectKeys == SeqsUpTo({"k", "/"}, MaxKeyLen)

(***************************************************************************)
(* Strings with tokens                                                     *)
(***************************************************************************)
Lit(s) == [kind |-> "lit", text |-> s, id |-> ""]
Ref(p) == [kind |-> "ref", text |-> <<>>, id |-> p]
ArnOf(b) == [kind |-> "arn", text |-> <<>>, id |-> b]

ArnPrefix == <<"a", "r", "n", ":", "a", "w", "s", ":", "s", "3", ":", ":", ":">>
SlashStar == <<"/", "*">>
Star == <<"*">>

\* CfnParameter.value_as_string: a token, resolved when the stack is deployed.
value_as_string(p) == <<Ref(p)>>

\* Bucket.bucket_arn: a token for the Arn attribute of the bucket construct.
bucket_arn(b) == <<ArnOf(b)>>

RECURSIVE Resolve(_, _, _)
Resolve(tmpl, t, vals) ==
    IF tmpl = <<>> THEN <<>>
    ELSE LET part == Head(tmpl)
             text == CASE part.kind = "lit" -> part.text
                       [] part.kind = "ref" -> vals[part.id]
                       [] part.kind = "arn" ->
                            ArnPrefix \o Resolve(t[part.id].bucket_name, t, vals)
         IN  text \o Resolve(Tail(tmpl), t, vals)

\* IAM resource pattern matching: "*" matches any run of characters, "?" one.
RECURSIVE Glob(_, _)
Glob(p, s) ==
    IF p = <<>> THEN s = <<>>
    ELSE IF Head(p) = "*"
         THEN Glob(Tail(p), s) \/ (s # <<>> /\ Glob(p, Tail(s)))
    ELSE IF Head(p) = "?"
         THEN s # <<>> /\ Glob(Tail(p), Tail(s))
    ELSE s # <<>> /\ Head(s) = Head(p) /\ Glob(Tail(p), Tail(s))

(***************************************************************************)
(* The declarations of __init__                                            *)
(***************************************************************************)
ParamIds == {"projectUrl", "S3BucketName", "RepositoryName"}

NoCondition == [op |-> "", key |-> "", value |-> ""]

\* Mutant: the parameter is declared with a default value.
CfnParameterDeclDefaulted ==
    [type |-> "CfnParameter", ptype |-> "String", hasDefault |-> TRUE]

CfnParameterDecl == [type |-> "CfnParameter", ptype |-> "String", hasDefault |-> FALSE]

\* Mutant: the bucket is named after the wrong parameter.
ArtifactBucketDeclWrongName(e) ==
    [type |-> "Bucket",
     bucket_name |-> value_as_string(e["repository_name"]),
     encryption |-> "S3_MANAGED",
     removal_policy |-> "DESTROY",
     policy |-> <<>>]

ArtifactBucketDecl(e) ==
    [type |-> "Bucket",
     bucket_name |-> value_as_string(e["s3_bucket_name"]),
     encryption |-> "S3_MANAGED",
     removal_policy |-> "DESTROY",
     policy |-> <<>>]

\* Mutant: the pattern lacks the "/" between the bucket Arn and the wildcard.
DenyResourcesNoSlash(e) == {bucket_arn(e["artifact_bucket"]) \o <<Lit(Star)>>}

DenyResources(e) == {bucket_arn(e["artifact_bucket"]) \o <<Lit(SlashStar)>>}

\* Mutant: the condition operator is the positive one.
DenyConditionEquals ==
    [op |-> "StringEquals", key |-> "s3:x-amz-server-side-encryption",
     value |-> "aws:kms"]

DenyCondition ==
    [op |-> "StringNotEquals", key |-> "s3:x-amz-server-side-encryption",
     value |-> "aws:kms"]

DenyStatement(e) ==
    [effect |-> "Deny",
     principals |-> "*",
     actions |-> {"s3:PutObject"},
     resources |-> DenyResources(e),
     condition |-> DenyCondition]

\* Mutant: the repository name is built from the project URL as well.
RepositoryDeclWithUrl(e) ==
    [type |-> "Repository",
     repository_name |-> value_as_string(e["repository_name"])
                            \o value_as_string(e["project_url"])]

RepositoryDecl(e) ==
    [type |-> "Repository",
     repository_name |-> value_as_string(e["repository_name"])]

CodeBuildAccessActions ==
    {"s3:PutObject", "s3:GetObject", "s3:GetObjectVersion",
     "s3:GetBucketAcl", "s3:GetBucketLocation"}

\* Mutant: the inline grant names the wrong parameter.
CodeBuildAccessResourcesWrongParam(e) ==
    {<<Lit(ArnPrefix)>> \o value_as_string(e["repository_name"]),
     <<Lit(ArnPrefix)>> \o value_as_string(e["repository_name"]) \o <<Lit(SlashStar)>>}

CodeBuildAccessResources(e) ==
    {<<Lit(ArnPrefix)>> \o value_as_string(e["s3_bucket_name"]),
     <<Lit(ArnPrefix)>> \o value_as_string(e["s3_bucket_name"]) \o <<Lit(SlashStar)>>}

\* Mutant: the inline grant is on every bucket.
BuildRoleDeclAnyBucket(e) ==
    [type |-> "Role",
     assumed_by |-> "codebuild.amazonaws.com",
     managed_policies |-> {"AmazonS3ReadOnlyAccess"},
     inline_name |-> "CodeBuildAccess",
     inline_policy |->
        <<[effect |-> "Allow", principals |-> "",
           actions |-> CodeBuildAccessActions,
           resources |-> {<<Lit(ArnPrefix \o Star)>>},
           condition |-> NoCondition]>>]

BuildRoleDecl(e) ==
    [type |-> "Role",
     assumed_by |-> "codebuild.amazonaws.com",
     managed_policies |-> {"AmazonS3ReadOnlyAccess"},
     inline_name |-> "CodeBuildAccess",
     inline_policy |->
        <<[effect |-> "Allow", principals |-> "",
           actions |-> CodeBuildAccessActions,
           resources |-> CodeBuildAccessResources(e),
           condition |-> NoCondition]>>]

BuildProjectDecl(e) ==
    [type |-> "Project",
     project_name |-> "AppBuildProject",
     role |-> e["build_project_role"],
     source |-> e["repository"],
     artifacts |-> [bucket |-> e["artifact_bucket"],
                    include_build_id |-> FALSE,
                    package_zip |-> TRUE,
                    path |-> <<>>,
                    identifier |-> "BuildOutput",
                    encryption |-> TRUE]]

\* Mutant: the orchestration grant also lists the write action.
PipelineAccessActionsWithPut ==
    {"s3:PutObject", "s3:GetObject", "s3:GetBucketAcl", "s3:GetBucketLocation"}

PipelineAccessActions == {"s3:GetObject", "s3:GetBucketAcl", "s3:GetBucketLocation"}

PipelineAccessResources(e) ==
    {bucket_arn(e["artifact_bucket"]),
     bucket_arn(e["artifact_bucket"]) \o <<Lit(SlashStar)>>}

PipelineRoleDecl(e) ==
    [type |-> "Role",
     assumed_by |-> "codepipeline.amazonaws.com",
     managed_policies |-> {"AmazonS3ReadOnlyAccess"},
     inline_name |-> "ec2codedeploy",
     inline_policy |->
        <<[effect |-> "Allow", principals |-> "",
           actions |-> PipelineAccessActions,
           resources |-> PipelineAccessResources(e),
           condition |-> NoCondition]>>]

SourceStage(e) ==
    [stage_name |-> "Source",
     action_name |-> "SourceAction",
     target |-> e["repository"],
     branch |-> "master",
     inputs |-> {},
     outputs |-> {"SourceOutput"}]

BuildStage(e) ==
    [stage_name |-> "Build",
     action_name |-> "BuildAction",
     target |-> e["build_project"],
     branch |-> "",
     inputs |-> {"SourceOutput"},
     outputs |-> {"BuildOutput"}]

\* Mutant: the two stages are listed in the other order.
PipelineStagesSwapped(e) == <<BuildStage(e), SourceStage(e)>>

PipelineStages(e) == <<SourceStage(e), BuildStage(e)>>

PipelineDecl(e) ==
    [type |-> "Pipeline",
     pipeline_name |-> "AppPipeline",
     role |-> e["pipeline_role"],
     artifact_bucket |-> e["artifact_bucket"],
     stages |-> PipelineStages(e)]

(***************************************************************************)
(* The statements of __init__ in source order: the local variable each     *)
(* binds, the construct it declares and the local variables it reads.      *)
(***************************************************************************)
\* Mutant: the build project is declared before the repository it reads.
StepsProjectFirst ==
    <<[var |-> "project_url", id |-> "projectUrl", uses |-> {}],
      [var |-> "s3_bucket_name", id |-> "S3BucketName", uses |-> {}],
      [var |-> "repository_name", id |-> "RepositoryName", uses |-> {}],
      [var |-> "artifact_bucket", id |-> "ArtifactBucket",
       uses |-> {"s3_bucket_name"}],
      [var |-> "", id |-> "ArtifactBucket/Policy", uses |-> {"artifact_bucket"}],
      [var |-> "build_project_role", id |-> "AppBuildRole",
       uses |-> {"s3_bucket_name"}],
      [var |-> "build_project", id |-> "AppBuildProject",
       uses |-> {"build_project_role", "repository", "artifact_bucket"}],
      [var |-> "repository", id |-> "JavaProjectRepository",
       uses |-> {"repository_name"}],
      [var |-> "pipeline_role", id |-> "CodePipelineServiceRole",
       uses |-> {"artifact_bucket"}],
      [var |-> "", id |-> "AppPipeline",
       uses |-> {"pipeline_role", "artifact_bucket", "repository", "build_project"}]>>

Steps ==
    <<[var |-> "project_url", id |-> "projectUrl", uses |-> {}],
      [var |-> "s3_bucket_name", id |-> "S3BucketName", uses |-> {}],
      [var |-> "repository_name", id |-> "RepositoryName", uses |-> {}],
      [var |-> "artifact_bucket", id |-> "ArtifactBucket",
       uses |-> {"s3_bucket_name"}],
      [var |-> "", id |-> "ArtifactBucket/Policy", uses |-> {"artifact_bucket"}],
      [var |-> "repository", id |-> "JavaProjectRepository",
       uses |-> {"repository_name"}],
      [var |-> "build_project_role", id |-> "AppBuildRole",
       uses |-> {"s3_bucket_name"}],
      [var |-> "build_project", id |-> "AppBuildProject",
       uses |-> {"build_project_role", "repository", "artifact_bucket"}],
      [var |-> "pipeline_role", id |-> "CodePipelineServiceRole",
       uses |-> {"artifact_bucket"}],
      [var |-> "", id |-> "AppPipeline",
       uses |-> {"pipeline_role", "artifact_bucket", "repository", "build_project"}]>>

Empty == [x \in {} |-> x]

\* The construct tree after statement s is executed with locals e.
Declare(s, e, t) ==
    CASE s.id \in ParamIds -> (s.id :> CfnParameterDecl) @@ t
      [] s.id = "ArtifactBucket" -> (s.id :> ArtifactBucketDecl(e)) @@ t
      [] s.id = "ArtifactBucket/Policy" ->
            [t EXCEPT ![e["artifact_bucket"]].policy = Append(@, DenyStatement(e))]
      [] s.id = "JavaProjectRepository" -> (s.id :> RepositoryDecl(e)) @@ t
      [] s.id = "AppBuildRole" -> (s.id :> BuildRoleDecl(e)) @@ t
      [] s.id = "AppBuildProject" -> (s.id :> BuildProjectDecl(e)) @@ t
      [] s.id = "CodePipelineServiceRole" -> (s.id :> PipelineRoleDecl(e)) @@ t
      [] s.id = "AppPipeline" -> (s.id :> PipelineDecl(e)) @@ t

(***************************************************************************)
(* Deploy-time inputs                                                      *)
(***************************************************************************)
ValuesOf(p) ==
    CASE p = "projectUrl" -> Urls
      [] p = "S3BucketName" -> BucketNames
      [] p = "RepositoryName" -> RepoNames

\* A deployment supplies a value for some of the parameters.
Inputs(g) ==
    {v \in [ParamIds -> Urls \cup BucketNames \cup RepoNames \cup {<<>>}] :
        \A p \in ParamIds : IF p \in g THEN v[p] \in ValuesOf(p) ELSE v[p] = <<>>}

NoRequest ==
    [principal |-> "", action |-> "", bucket |-> <<>>, key |-> <<>>, sse |-> ""]

NoPrev == [done |-> FALSE, values |-> [p \in ParamIds |-> <<>>], given |-> {},
           tree |-> Empty]

Init ==
    /\ given \in SUBSET ParamIds
    /\ values \in Inputs(given)
    /\ pc = 1
    /\ status = "building"
    /\ env = Empty
    /\ tree = Empty
    /\ order = <<>>
    /\ deployed = "no"
    /\ req = NoRequest
    /\ decision = ""
    /\ ran = <<>>
    /\ artifacts = {}
    /\ prev = NoPrev

(***************************************************************************)
(* One statement of __init__.  Reading a local variable that no earlier    *)
(* statement has bound raises and leaves the constructor.                  *)
(***************************************************************************)
Step ==
    /\ status = "building"
    /\ LET s == Steps[pc] IN
         IF ~(s.uses \subseteq DOMAIN env)
         THEN /\ status' = "error"
              /\ UNCHANGED <<pc, env, tree, order>>
         ELSE /\ tree' = Declare(s, env, tree)
              /\ env' = IF s.var = "" THEN env ELSE (s.var :> s.id) @@ env
              /\ order' = Append(order, s.id)
              /\ pc' = pc + 1
              /\ status' = IF pc = Len(Steps) THEN "built" ELSE "building"
    /\ UNCHANGED <<values, given, deployed, req, decision, ran, artifacts, prev>>

(***************************************************************************)
(* Deployment: the provisioning service resolves the parameter tokens.  A  *)
(* parameter declared without a default must be given a value.             *)
(***************************************************************************)
ConstructsOf(t, type) == {id \in DOMAIN t : t[id].type = type}

RequiredParams(t) == {p \in ConstructsOf(t, "CfnParameter") : ~t[p].hasDefault}

Deploy ==
    /\ status = "built"
    /\ deployed = "no"
    /\ deployed' = IF RequiredParams(tree) \subseteq given THEN "ok" ELSE "rejected"
    /\ UNCHANGED <<values, given, pc, status, env, tree, order, req, decision,
                   ran, artifacts, prev>>

(***************************************************************************)
(* Evaluation of the declared policy statements on a storage request       *)
(***************************************************************************)
S3Actions ==
    {"s3:PutObject", "s3:DeleteObject", "s3:GetObject", "s3:GetObjectVersion",
     "s3:GetBucketAcl", "s3:GetBucketLocation", "s3:ListBucket"}

WriteActions == {"s3:PutObject", "s3:DeleteObject"}

BucketActions == {"s3:GetBucketAcl", "s3:GetBucketLocation", "s3:ListBucket"}

NoHeader == "(absent)"

\* The statements of a managed policy named by from_aws_managed_policy_name.
ManagedPolicy(name) ==
    IF name = "AmazonS3ReadOnlyAccess"
    THEN <<[effect |-> "Allow", principals |-> "",
            actions |-> S3Actions \ WriteActions,
            resources |-> {<<Lit(Star)>>},
            condition |-> NoCondition]>>
    ELSE <<>>

RECURSIVE ManagedStatements(_)
ManagedStatements(names) ==
    IF names = {} THEN <<>>
    ELSE LET n == CHOOSE x \in names : TRUE
         IN  ManagedPolicy(n) \o ManagedStatements(names \ {n})

\* The grants an identity holds: a role of the stack holds its inline and
\* managed policies; ExternalAdmin is an identity outside the stack that is
\* allowed every storage action; any other identity holds nothing.
RoleGrants(role) == role.inline_policy \o ManagedStatements(role.managed_policies)

IdentityStatements(principal, t) ==
    IF principal \in ConstructsOf(t, "Role") THEN RoleGrants(t[principal])
    ELSE IF principal = "ExternalAdmin"
         THEN <<[effect |-> "Allow", principals |-> "", actions |-> S3Actions,
                 resources |-> {<<Lit(Star)>>}, condition |-> NoCondition]>>
    ELSE <<>>

\* The statements of the resource policy of the bucket a request addresses.
ResourceStatements(r, t, vals) ==
    LET bs == {b \in ConstructsOf(t, "Bucket") :
                  Resolve(t[b].bucket_name, t, vals) = r.bucket}
    IN  IF bs = {} THEN <<>> ELSE t[CHOOSE b \in bs : TRUE].policy

ResourceArn(r) ==
    IF r.key = <<>> THEN ArnPrefix \o r.bucket
    ELSE ArnPrefix \o r.bucket \o <<"/">> \o r.key

ContextValue(r, key) ==
    IF key = "s3:x-amz-server-side-encryption" THEN r.sse ELSE NoHeader

\* StringNotEquals holds when the key is absent from the request.
ConditionHolds(c, r) ==
    CASE c.op = "" -> TRUE
      [] c.op = "StringNotEquals" ->
            ContextValue(r, c.key) = NoHeader \/ ContextValue(r, c.key) # c.value
      [] c.op = "StringEquals" ->
            ContextValue(r, c.key) # NoHeader /\ ContextValue(r, c.key) = c.value

ResourceMatches(stmt, arn, t, vals) ==
    \E res \in stmt.resources : Glob(Resolve(res, t, vals), arn)

StatementApplies(stmt, r, t, vals) ==
    /\ r.action \in stmt.actions
    /\ ResourceMatches(stmt, ResourceArn(r), t, vals)
    /\ ConditionHolds(stmt.condition, r)

Range(f) == {f[i] : i \in DOMAIN f}

\* An explicit deny wins; otherwise an allow is needed.
Authorize(r, t, vals) ==
    LET idn == Range(IdentityStatements(r.principal, t))
        rsc == {st \in Range(ResourceStatements(r, t, vals)) : st.principals = "*"}
        all == {st \in idn \cup rsc : StatementApplies(st, r, t, vals)}
    IN  IF \E st \in all : st.effect = "Deny" THEN "Deny"
        ELSE IF \E st \in all : st.effect = "Allow" THEN "Allow"
        ELSE "ImplicitDeny"

Principals == {"AppBuildRole", "CodePipelineServiceRole", "ExternalAdmin", "Anonymous"}

Headers == {NoHeader, "aws:kms", "AES256"}

\* Object requests name a key; bucket requests do not.  The encryption header
\* is a header of PutObject.
Requests ==
    {r \in [principal : Principals,
            action : {"s3:PutObject", "s3:GetObject", "s3:GetBucketAcl"},
            bucket : BucketNames,
            key : ObjectKeys \cup {<<>>},
            sse : Headers] :
        /\ (r.key = <<>>) <=> (r.action \in BucketActions)
        /\ r.action # "s3:PutObject" => r.sse = NoHeader}

\* Evaluation reads the deployed policies and changes none of them, so the
\* outcome of a request does not depend on the requests before it: each
\* behaviour evaluates one.
Request ==
    /\ deployed = "ok"
    /\ req = NoRequest
    /\ \E r \in Requests :
          /\ req' = r
          /\ decision' = Authorize(r, tree, values)
    /\ UNCHANGED <<values, given, pc, status, env, tree, order, deployed,
                   ran, artifacts, prev>>

(***************************************************************************)
(* Execution of the declared pipeline: stages run in the declared order; a *)
(* stage whose input artifact has not been produced fails and stops it.    *)
(***************************************************************************)
ThePipeline(t) == t[CHOOSE id \in ConstructsOf(t, "Pipeline") : TRUE]

RunStage ==
    /\ deployed = "ok"
    /\ Len(ran) < Len(ThePipeline(tree).stages)
    /\ \A i \in DOMAIN ran : ran[i].ok
    /\ LET st == ThePipeline(tree).stages[Len(ran) + 1]
           ok == st.inputs \subseteq artifacts
       IN  /\ ran' = Append(ran, [stage |-> st.stage_name, ok |-> ok])
           /\ artifacts' = IF ok THEN artifacts \cup st.outputs ELSE artifacts
    /\ UNCHANGED <<values, given, pc, status, env, tree, order, deployed, req,
                   decision, prev>>

(***************************************************************************)
(* Running __init__ a second time, in a fresh scope, with inputs of its own*)
(***************************************************************************)
Rerun ==
    /\ status = "built"
    /\ ~prev.done
    /\ prev' = [done |-> TRUE, values |-> values, given |-> given, tree |-> tree]
    /\ given' \in SUBSET ParamIds
    /\ values' \in Inputs(given')
    /\ pc' = 1
    /\ status' = "building"
    /\ env' = Empty
    /\ tree' = Empty
    /\ order' = <<>>
    /\ UNCHANGED <<deployed, req, decision, ran, artifacts>>

Next == Step \/ Deploy \/ Request \/ RunStage

Spec == Init /\ [][Next]_vars

NextRerun == Step \/ Rerun

SpecRerun == Init /\ [][NextRerun]_vars

(***************************************************************************)
(* Views of the topology used by the properties                            *)
(***************************************************************************)
ResourceEntities(t) == {id \in DOMAIN t : t[id].type # "CfnParameter"}

AllConstructs ==
    {"projectUrl", "S3BucketName", "RepositoryName", "ArtifactBucket",
     "JavaProjectRepository", "AppBuildRole", "AppBuildProject",
     "CodePipelineServiceRole", "AppPipeline"}

TheOnly(S) == CHOOSE x \in S : TRUE

\* The deployed name and Arn of a bucket construct.
BucketName(b) == Resolve(tree[b].bucket_name, tree, values)
BucketArn(b) == ArnPrefix \o BucketName(b)
ScopedTo(b) == {BucketArn(b), BucketArn(b) \o SlashStar}

ResolvedResources(st) == {Resolve(r, tree, values) : r \in st.resources}

BuildTarget == tree[TheOnly(ConstructsOf(tree, "Project"))].artifacts.bucket
ArtifactStore == tree[TheOnly(ConstructsOf(tree, "Pipeline"))].artifact_bucket

\* C2 (as stated): every grant of the build and orchestration principals has
\* a resource set that resolves to the storage location used by the build
\* stage and the orchestration stage, and references nothing else.
C2_EveryGrantScoped ==
    status = "built" =>
        /\ BuildTarget = ArtifactStore
        /\ \A r \in ConstructsOf(tree, "Role") :
              \A st \in Range(RoleGrants(tree[r])) :
                 ResolvedResources(st) \subseteq ScopedTo(BuildTarget)

\* C2 (amended): every inline grant of the two principals resolves to the
\* storage location (its Arn and the objects under it) that the build stage
\* targets and the orchestration stage stores artifacts in; the managed grant
\* of each principal is on every resource.
C2_InlineGrantsScoped ==
    status = "built" =>
        /\ BuildTarget = ArtifactStore
        /\ BuildTarget \in ConstructsOf(tree, "Bucket")
        /\ \A r \in ConstructsOf(tree, "Role") :
              /\ \A st \in Range(tree[r].inline_policy) :
                    ResolvedResources(st) = ScopedTo(BuildTarget)
              /\ \A st \in Range(ManagedStatements(tree[r].managed_policies)) :
                    ResolvedResources(st) = {Star}

C2_Witness ==
    /\ status = "built"
    /\ given = ParamIds
    /\ BucketName(BuildTarget) = MyBucket
    /\ ConstructsOf(tree, "Role") = {"AppBuildRole", "CodePipelineServiceRole"}

(***************************************************************************)
(* C3                                                                      *)
(***************************************************************************)
\* C3: the pipeline has exactly two stages, Source then Build; Source
\* produces "SourceOutput", Build consumes it and produces "BuildOutput"; in
\* an execution Build runs only after Source has produced that artifact.
C3_SourceThenBuild ==
    /\ status = "built" =>
          LET st == ThePipeline(tree).stages
          IN  /\ Len(st) = 2
              /\ st[1].stage_name = "Source" /\ st[2].stage_name = "Build"
              /\ st[1].outputs = {"SourceOutput"}
              /\ st[2].inputs = st[1].outputs
              /\ st[2].outputs = {"BuildOutput"}
    /\ \A i \in DOMAIN ran :
          ran[i].stage = "Build" =>
             /\ ran[i].ok
             /\ "SourceOutput" \in artifacts
             /\ \E j \in 1..(i - 1) : ran[j].stage = "Source" /\ ran[j].ok

C3_Witness ==
    /\ Len(ran) = 2
    /\ ran[2].stage = "Build"
    /\ artifacts = {"SourceOutput", "BuildOutput"}

(***************************************************************************)
(* C4                                                                      *)
(***************************************************************************)
TheBucket == TheOnly(ConstructsOf(tree, "Bucket"))

DenyStatements == {st \in Range(tree[TheBucket].policy) : st.effect = "Deny"}

\* C4: the resource pattern of the DENY statement matches the object of a
\* request exactly when the object lies in the declared storage location:
\* every key under its root, and no object of another storage location.
C4_DenyPatternCoversBucket ==
    (deployed = "ok" /\ req # NoRequest /\ req.key # <<>>) =>
        /\ Cardinality(DenyStatements) = 1
        /\ \A st \in DenyStatements :
              ResourceMatches(st, ResourceArn(req), tree, values)
                 <=> (req.bucket = BucketName(TheBucket))

C4_Witness ==
    /\ deployed = "ok"
    /\ req.bucket = BucketName(TheBucket)
    /\ req.key = <<"k", "/">>
    /\ \A st \in DenyStatements : ResourceMatches(st, ResourceArn(req), tree, values)

(***************************************************************************)
(* C5                                                                      *)
(***************************************************************************)
HoldsAllow(r) ==
    \E st \in Range(IdentityStatements(r.principal, tree)) :
        st.effect = "Allow" /\ StatementApplies(st, r, tree, values)

\* C5: whoever asks, a PutObject on an object of the storage location whose
\* encryption header is absent or not "aws:kms" is denied; a PutObject is
\* allowed only with the header "aws:kms" and an ALLOW grant of the principal.
C5_UnencryptedPutDenied ==
    (deployed = "ok" /\ req.action = "s3:PutObject"
        /\ req.bucket = BucketName(TheBucket)) =>
        /\ req.sse # "aws:kms" => decision = "Deny"
        /\ decision = "Allow" => (req.sse = "aws:kms" /\ HoldsAllow(req))

C5_Witness ==
    /\ deployed = "ok"
    /\ req.principal = "AppBuildRole"
    /\ req.action = "s3:PutObject"
    /\ req.bucket = BucketName(TheBucket)
    /\ req.sse = NoHeader
    /\ HoldsAllow(req)
    /\ decision = "Deny"

(***************************************************************************)
(* C6                                                                      *)
(***************************************************************************)
\* C6: the topology holds exactly one storage location, named by the storage
\* location parameter, one repository, named by the repository parameter, one
\* build stage reading that repository and writing to that storage location,
\* and one orchestration stage.
C6_OneOfEach ==
    status = "built" =>
        /\ Cardinality(ConstructsOf(tree, "Bucket")) = 1
        /\ Cardinality(ConstructsOf(tree, "Repository")) = 1
        /\ Cardinality(ConstructsOf(tree, "Project")) = 1
        /\ Cardinality(ConstructsOf(tree, "Pipeline")) = 1
        /\ BucketName(TheBucket) = values["S3BucketName"]
        /\ LET repo == TheOnly(ConstructsOf(tree, "Repository"))
               proj == tree[TheOnly(ConstructsOf(tree, "Project"))]
           IN  /\ Resolve(tree[repo].repository_name, tree, values)
                     = values["RepositoryName"]
               /\ proj.source = repo
               /\ proj.artifacts.bucket = TheBucket

C6_Witness ==
    /\ status = "built"
    /\ values["S3BucketName"] = MyBucket
    /\ values["RepositoryName"] = MyRepo
    /\ BucketName(TheBucket) = MyBucket

(***************************************************************************)
(* C7                                                                      *)
(***************************************************************************)
ResolvedStatement(st, t, vals) ==
    [st EXCEPT !.resources = {Resolve(r, t, vals) : r \in @}]

\* The topology a run yields once its tokens are resolved.
ResolvedEntity(id, t, vals) ==
    CASE t[id].type = "Bucket" ->
            [id |-> id, name |-> Resolve(t[id].bucket_name, t, vals),
             grants |-> {ResolvedStatement(st, t, vals) : st \in Range(t[id].policy)},
             decl |-> [t[id] EXCEPT !.bucket_name = <<>>, !.policy = <<>>]]
      [] t[id].type = "Repository" ->
            [id |-> id, name |-> Resolve(t[id].repository_name, t, vals),
             grants |-> {},
             decl |-> [t[id] EXCEPT !.repository_name = <<>>]]
      [] t[id].type = "Role" ->
            [id |-> id, name |-> <<>>,
             grants |-> {ResolvedStatement(st, t, vals) : st \in Range(RoleGrants(t[id]))},
             decl |-> [t[id] EXCEPT !.inline_policy = <<>>]]
      [] OTHER -> [id |-> id, name |-> <<>>, grants |-> {}, decl |-> t[id]]

Topology(t, vals) == {ResolvedEntity(id, t, vals) : id \in ResourceEntities(t)}

SameNames(v, w) ==
    /\ v["S3BucketName"] = w["S3BucketName"]
    /\ v["RepositoryName"] = w["RepositoryName"]

\* C7: two runs given the same storage location name and repository name
\* yield the same topology (entities, grants, stage order, artifact names),
\* whatever project URL each is given.
C7_SameInputsSameTopology ==
    (prev.done /\ status = "built" /\ SameNames(values, prev.values)) =>
        Topology(tree, values) = Topology(prev.tree, prev.values)

C7_Witness ==
    /\ prev.done
    /\ status = "built"
    /\ given = ParamIds
    /\ SameNames(values, prev.values)
    /\ values["projectUrl"] # prev.values["projectUrl"]
    /\ Cardinality(Topology(tree, values)) = 6

(***************************************************************************)
(* C8                                                                      *)
(***************************************************************************)
BuildPrincipal == tree[TheOnly(ConstructsOf(tree, "Project"))].role

\* C8: the inline grant of the build principal allows put, get, get-version,
\* get-acl and get-location on the storage location and its objects only, its
\* managed grant allows no write, and no PutObject of the build principal on
\* another storage location is allowed.
C8_BuildWritesOnlyItsBucket ==
    /\ status = "built" =>
          /\ \A st \in Range(tree[BuildPrincipal].inline_policy) :
                /\ st.effect = "Allow"
                /\ st.actions = {"s3:PutObject", "s3:GetObject", "s3:GetObjectVersion",
                                 "s3:GetBucketAcl", "s3:GetBucketLocation"}
                /\ ResolvedResources(st) = ScopedTo(TheBucket)
          /\ \A st \in Range(ManagedStatements(tree[BuildPrincipal].managed_policies)) :
                st.actions \cap WriteActions = {}
    /\ (deployed = "ok" /\ req.principal = BuildPrincipal
           /\ req.action \in WriteActions /\ req.bucket # BucketName(TheBucket))
          => decision # "Allow"

C8_Witness ==
    /\ deployed = "ok"
    /\ req.principal = BuildPrincipal
    /\ req.action = "s3:PutObject"
    /\ req.sse = "aws:kms"
    /\ req.bucket = BucketName(TheBucket) \o <<"a">>
    /\ decision = "ImplicitDeny"

(***************************************************************************)
(* C9                                                                      *)
(***************************************************************************)
OrchestrationPrincipal == tree[TheOnly(ConstructsOf(tree, "Pipeline"))].role

DeclarationOrder ==
    <<"projectUrl", "S3BucketName", "RepositoryName", "ArtifactBucket",
      "ArtifactBucket/Policy", "JavaProjectRepository", "AppBuildRole",
      "AppBuildProject", "CodePipelineServiceRole", "AppPipeline">>

\* The constructs a declaration refers to.
References(d) ==
    CASE d.type = "Bucket" ->
            {p.id : p \in Range(d.bucket_name)}
               \cup UNION {UNION {{p.id : p \in Range(r)} : r \in st.resources} :
                              st \in Range(d.policy)}
      [] d.type = "Repository" -> {p.id : p \in Range(d.repository_name)}
      [] d.type = "Role" ->
            UNION {UNION {{p.id : p \in Range(r)} : r \in st.resources} :
                      st \in Range(d.inline_policy)}
      [] d.type = "Project" -> {d.role, d.source, d.artifacts.bucket}
      [] d.type = "Pipeline" ->
            {d.role, d.artifact_bucket} \cup {st.target : st \in Range(d.stages)}
      [] OTHER -> {}

IsPrefix(a, b) == Len(a) <= Len(b) /\ a = SubSeq(b, 1, Len(a))

\* C10: the constructor declares its entities in one fixed order, never reads
\* an entity that is not yet declared, so that at every step every reference
\* of a declared entity is to a declared entity; and the repository of the
\* Source stage is the repository the build stage is bound to.
C10_NoForwardReference ==
    /\ status # "error"
    /\ IsPrefix(order, DeclarationOrder)
    /\ \A id \in DOMAIN tree : (References(tree[id]) \ {""}) \subseteq DOMAIN tree
    /\ status = "built" =>
          LET st == ThePipeline(tree).stages
          IN  /\ tree[st[1].target].type = "Repository"
              /\ tree[st[2].target].type = "Project"
              /\ tree[st[2].target].source = st[1].target

C10_Witness ==
    /\ status = "built"
    /\ order = DeclarationOrder
    /\ References(tree["AppPipeline"]) =
          {"CodePipelineServiceRole", "ArtifactBucket", "JavaProjectRepository",
           "AppBuildProject"}

====
